---- MODULE Spec2Model ----
(***************************************************************************)
(* isoForestImport.py: getIF scores one series under the Raw, Delta,       *)
(* Window(w) and WindowDelta(w) feature views, merges the per-view result  *)
(* frames column-wise and shifts every column back onto the source rows.   *)
(*                                                                         *)
(* A data frame is a sequence of columns [name, vals] over a RangeIndex    *)
(* (row r of the model is pandas row r-1).  A cell is a record [k, a, b]:  *)
(* a number a/b, a timestamp (day a, time of day b), a calendar date or    *)
(* NaN.  A column name is the sequence of the string pieces the code       *)
(* concatenates; str(val) is the sequence of the decimal digits of val.    *)
(***************************************************************************)
EXTENDS Integers, Sequences, FiniteSets

\* ---------------------------------------------------------------- bounds
MaxLen == 4
MaxWindows == 2

Values == {10, 50}
WindowSizes == 0 .. MaxLen
TimeFlags == {"True", "None", "False"}
ArgTypes == {"ok", "dataCol", "timeCol", "windowList"}

\* ----------------------------------------------------------------- cells
NaN == [k |-> "nan", a |-> 0, b |-> 0]
Num(v) == [k |-> "num", a |-> v, b |-> 1]
Ratio(s, w) == [k |-> "num", a |-> s, b |-> w]
\* Sample i of the index: day i, at a time of day that is midnight for the
\* first sample only.
Ts(i) == [k |-> "ts", a |-> i, b |-> i - 1]
IsNa(c) == c.k = "nan"

Range(m) == [r \in 1 .. m |-> r]
Min(x, y) == IF x < y THEN x ELSE y
Max(x, y) == IF x < y THEN y ELSE x

\* A DatetimeIndex of m consecutive samples, strictly increasing.
DatetimeIndex(m) == [r \in 1 .. m |-> Ts(r)]

\* Series.dt.date: the calendar date of a timestamp, time of day removed.
DtDate(c) == [k |-> "date", a |-> c.a, b |-> 0]

\* ------------------------------------------------------- str(val), names
DigitChar == <<"0", "1", "2", "3", "4", "5", "6", "7", "8", "9">>

RECURSIVE Str(_)
Str(v) ==
  IF v < 0 THEN <<"-">> \o Str(0 - v)
  ELSE IF v < 10 THEN <<DigitChar[v + 1]>>
  ELSE Str(v \div 10) \o <<DigitChar[(v % 10) + 1]>>

Column(name, vals) == [name |-> name, vals |-> vals]
ColNames(df) == [c \in 1 .. Len(df) |-> df[c].name]
HasCol(df, name) == \E c \in 1 .. Len(df) : df[c].name = name
Col(df, name) == df[CHOOSE c \in 1 .. Len(df) : df[c].name = name].vals

RECURSIVE MaxColLen(_)
MaxColLen(df) ==
  IF df = <<>> THEN 0 ELSE Max(Len(Head(df).vals), MaxColLen(Tail(df)))

\* DataFrame.drop(name, 1)
DropCol(df, name) ==
  LET Keep(c) == c.name # name IN SelectSeq(df, Keep)

\* dfResults.columns = [...]
SetColumns(df, names) ==
  [c \in 1 .. Len(df) |-> Column(names[c], df[c].vals)]

\* dfResults.columns.values[pos] = name (pos is 0-based in the source)
RenameAt(df, pos, name) ==
  [c \in 1 .. Len(df) |-> IF c = pos + 1 THEN Column(name, df[c].vals) ELSE df[c]]

\* --------------------------------------------------- pandas on a Series
\* Series.diff(): row 1 has no predecessor.
Diff(s) ==
  [r \in 1 .. Len(s) |-> IF r = 1 THEN NaN ELSE Num(s[r] - s[r - 1])]

RECURSIVE SumTo(_, _, _)
SumTo(s, lo, hi) == IF lo > hi THEN 0 ELSE s[hi] + SumTo(s, lo, hi - 1)

\* A rolling mean that starts at the first row (min_periods = 1): nothing
\* is lost to the window fill.
RollingMeanPartial(s, w) ==
  [r \in 1 .. Len(s) |->
     IF w = 0 THEN NaN
     ELSE Ratio(SumTo(s, Max(1, r - w + 1), r), Min(r, w))]

\* Series.rolling(w).mean(): min_periods defaults to w, a window of 0 rows
\* has no mean.
RollingMean(s, w) ==
  [r \in 1 .. Len(s) |->
     IF w = 0 \/ r < w THEN NaN ELSE Ratio(SumTo(s, r - w + 1, r), w)]

\* Series.isna().sum()
IsNaSum(vals) == Cardinality({r \in 1 .. Len(vals) : IsNa(vals[r])})

\* Series.dropna(): the surviving rows keep their index labels.
DropNaLabels(vals) ==
  LET Keep(r) == ~IsNa(vals[r]) IN SelectSeq(Range(Len(vals)), Keep)

DropNa(vals) ==
  LET lab == DropNaLabels(vals) IN [j \in 1 .. Len(lab) |-> vals[lab[j]]]

\* Assigning a labelled Series to a column of an n-row frame aligns it on
\* the index: rows without a label are NaN.
Reindex(lab, vals, n) ==
  [r \in 1 .. n |->
     IF \E j \in 1 .. Len(lab) : lab[j] = r
       THEN vals[CHOOSE j \in 1 .. Len(lab) : lab[j] = r]
       ELSE NaN]

\* Series.shift(d, axis = 0): the length is kept, the first d rows are NaN
\* and the last d values fall off the end.
Shift(vals, d) ==
  [r \in 1 .. Len(vals) |-> IF r <= d THEN NaN ELSE vals[r - d]]

\* s[d:] (positional slice)
SliceFrom(s, d) == SubSeq(s, d + 1, Len(s))

\* pd.concat(frames, axis = 1) over RangeIndex frames: the union index is
\* the longest one, shorter columns are NaN at the bottom.
PadCol(c, n) ==
  Column(c.name, [r \in 1 .. n |-> IF r <= Len(c.vals) THEN c.vals[r] ELSE NaN])

RECURSIVE Flatten(_)
Flatten(frames) ==
  IF frames = <<>> THEN <<>> ELSE Head(frames) \o Flatten(Tail(frames))

Concat(frames) ==
  LET all == Flatten(frames)
      n == MaxColLen(all)
  IN [c \in 1 .. Len(all) |-> PadCol(all[c], n)]

\* Series.to_numpy().reshape(-1, 1): one feature per row.
Reshape(vals) == [r \in 1 .. Len(vals) |-> <<vals[r]>>]

\* pd.concat([deltaCol, dataCol], axis = 1).dropna(): rows with any NaN go.
DeltaFrame(deltaCol, data) ==
  [r \in 1 .. Len(data) |-> <<deltaCol[r], Num(data[r])>>]

RowHasNa(row) == \E f \in 1 .. Len(row) : IsNa(row[f])

FrameDropNaLabels(rows) ==
  LET Keep(r) == ~RowHasNa(rows[r]) IN SelectSeq(Range(Len(rows)), Keep)

\* ------------------------------------------- IsolationForest (external)
\* The scorer is an opaque deterministic capability (random_state = 42):
\* fit keeps the matrix, the score of a row is a function of the fitted
\* matrix and the row, and predict is -1 where the score is negative.
ViewId(kind, pos) == [kind |-> kind, pos |-> pos]
NoView == ViewId("none", 0)

IsolationForest(id) == [id |-> id, model |-> <<>>, view |-> NoView]

\* check_array: at least one sample and no NaN, else ValueError.
FitOK(X) ==
  /\ Len(X) >= 1
  /\ \A r \in 1 .. Len(X) : ~RowHasNa(X[r])

\* A fit that keeps an earlier fit (the scorer is fit once, not per view).
FitOnce(clf, X, view) ==
  IF clf.model = <<>> THEN [clf EXCEPT !.model = X, !.view = view] ELSE clf

\* clf.fit(X): the forest is rebuilt from X, nothing of an earlier fit stays.
Fit(clf, X, view) == [clf EXCEPT !.model = X, !.view = view]

Alike(model, row) == Cardinality({j \in 1 .. Len(model) : model[j] = row})

DecisionFunction(clf, X) ==
  [r \in 1 .. Len(X) |-> Num(2 * Alike(clf.model, X[r]) - Len(clf.model))]

Predict(clf, X) ==
  [r \in 1 .. Len(X) |->
     IF DecisionFunction(clf, X)[r].a < 0 THEN Num(0 - 1) ELSE Num(1)]

Event(op, clf, view) ==
  [op |-> op, inst |-> clf.id, view |-> view, fitted |-> clf.view]

\* ------------------------------------------------------------- getPlot
\* line 40: dfResults.loc[dfResults['Anomaly'] == -1, ['Date', 'Incidents']]
PlotOK(dfResults) ==
  HasCol(dfResults, <<"Date">>) /\ HasCol(dfResults, <<"Incidents">>)

AnomalyRows(dfResults) ==
  LET lab == Col(dfResults, <<"Anomaly">>)
      Flagged(r) == lab[r] = Num(0 - 1)
  IN SelectSeq(Range(Len(lab)), Flagged)

getPlot(dfResults, title, view) ==
  LET rows == AnomalyRows(dfResults)
  IN [title |-> title,
      view |-> view,
      a |-> [j \in 1 .. Len(rows) |->
               <<Col(dfResults, <<"Date">>)[rows[j]],
                 Col(dfResults, <<"Incidents">>)[rows[j]]>>]]

NoErr == [kind |-> "none", at |-> "none", window |-> <<>>]
Error(kind, at, window) == [kind |-> kind, at |-> at, window |-> window]

\* A feature view as built: the source rows it keeps (index), its feature
\* matrix and, once scored, its labels and the result columns it returns.
View(id, w, index, matrix, labels, out) ==
  [id |-> id, w |-> w, index |-> index, matrix |-> matrix,
   labels |-> labels, out |-> out]

\* What one call leaves behind: where getIF goes on, the exception if any,
\* the frame returned, the plot emitted and the view built.
Res(pc_, err_, df_, plots_, view_) ==
  [pc |-> pc_, err |-> err_, df |-> df_, plots |-> plots_, view |-> view_]

SeriesName == <<"Total_Incidents">>

VARIABLES dataCol, timeCol, windowList, time, argType,
          pc, err, i, clf, clfCount, clfLog, plots, views,
          baseDF, rollingCol, rollingDF, baseDeltaDF, windowDeltaDF,
          isoResults

inputs == <<dataCol, timeCol, windowList, time, argType>>
frames == <<baseDF, rollingCol, rollingDF, baseDeltaDF, windowDeltaDF, isoResults>>
scoring == <<clf, clfCount, clfLog, plots, views>>
vars == <<inputs, pc, err, i, scoring, frames>>

NumCol(s) == [r \in 1 .. Len(s) |-> Num(s[r])]

Init ==
  /\ dataCol \in UNION {[1 .. n -> Values] : n \in 0 .. MaxLen}
  /\ timeCol \in {DatetimeIndex(Len(dataCol) + d) : d \in {0, 1}}
  /\ windowList \in UNION {[1 .. n -> WindowSizes] : n \in 0 .. MaxWindows}
  /\ time \in TimeFlags
  /\ argType \in ArgTypes
  /\ pc = "start"
  /\ err = NoErr
  /\ i = 0
  /\ clf = IsolationForest(0)
  /\ clfCount = 0
  /\ clfLog = <<>>
  /\ plots = <<>>
  /\ views = <<>>
  /\ baseDF = <<>>
  /\ rollingCol = <<>>
  /\ rollingDF = <<>>
  /\ baseDeltaDF = <<>>
  /\ windowDeltaDF = <<>>
  /\ isoResults = <<>>

\* ------------------------------------------------- getIF, lines 293-295
AssertArgs ==
  /\ pc = "start"
  /\ IF argType = "ok"
       THEN pc' = "getBase" /\ err' = NoErr
       ELSE pc' = "failed" /\ err' = Error("AssertionError", argType, <<>>)
  /\ UNCHANGED <<inputs, i, scoring, frames>>

\* fit, decision_function and predict on one matrix (lines 73-82, 185-190):
\* what the scorer holds afterwards and what it returned.
Score(c, X, vid) ==
  IF FitOK(X)
    THEN [ok |-> TRUE,
          clf |-> Fit(c, X, vid),
          scores |-> DecisionFunction(Fit(c, X, vid), X),
          labels |-> Predict(Fit(c, X, vid), X),
          log |-> <<Event("fit", Fit(c, X, vid), vid),
                    Event("decision_function", Fit(c, X, vid), vid),
                    Event("predict", Fit(c, X, vid), vid)>>]
    ELSE [ok |-> FALSE, clf |-> c, scores |-> <<>>, labels |-> <<>>,
          log |-> <<Event("fit_rejected", c, vid)>>]

\* ---------------------------------------------------- getBase, 71-98
\* X is the matrix of line 73 and s what the scorer made of it.
getBase(X, s) ==
  LET vid == ViewId("Raw", 0)
      df3 == <<Column(<<"baseScores">>, s.scores),
               Column(<<"Anomaly">>, s.labels),
               Column(<<"Incidents">>, NumCol(dataCol))>>
      dated == time \in {"None", "True"}
      date == IF time = "None"
                THEN [r \in 1 .. Len(timeCol) |-> DtDate(timeCol[r])]
                ELSE timeCol
      df == IF dated THEN Append(df3, Column(<<"Date">>, date)) ELSE df3
      built == View(vid, 0, Range(Len(dataCol)), X, <<>>, <<>>)
  IN IF ~s.ok
       THEN Res("failed", Error("ValueError", "fit", <<>>), <<>>, <<>>, built)
     ELSE IF dated /\ Len(timeCol) # Len(dataCol)
       THEN Res("failed", Error("ValueError", "Date", <<>>), <<>>, <<>>, built)
     ELSE IF ~PlotOK(df)
       THEN Res("failed", Error("KeyError", "getPlot", <<>>), <<>>, <<>>, built)
     ELSE Res("getWindows", NoErr, df,
              <<getPlot(df, <<"Raw Input">>, vid)>>,
              View(vid, 0, Range(Len(dataCol)), X, s.labels, df))

GetBase ==
  /\ pc = "getBase"
  /\ \E X \in {Reshape(NumCol(dataCol))} :
     \E s \in {Score(IsolationForest(clfCount + 1), X, ViewId("Raw", 0))} :
     \E r \in {getBase(X, s)} :
        /\ pc' = r.pc
        /\ err' = r.err
        /\ baseDF' = r.df
        /\ clf' = s.clf
        /\ clfLog' = Append(clfLog,
                       Event("new", IsolationForest(clfCount + 1), NoView)) \o s.log
        /\ plots' = plots \o r.plots
        /\ views' = Append(views, r.view)
  /\ clfCount' = clfCount + 1
  /\ UNCHANGED <<inputs, i, rollingCol, rollingDF, baseDeltaDF, windowDeltaDF,
                 isoResults>>

\* ------------------------------------------------- getWindows, 173-204
\* Column names that leave the window size out.
WindowColumnsUnsized(val) ==
  <<<<"window", "Scores">>, <<"window", "Anomaly">>, <<"window", "Incidents">>>>

\* 'window' + str(val) + 'Scores', ... (line 201)
WindowColumns(val) ==
  <<<<"window">> \o Str(val) \o <<"Scores">>,
    <<"window">> \o Str(val) \o <<"Anomaly">>,
    <<"window">> \o Str(val) \o <<"Incidents">>>>

\* One pass of the loop of line 180 for val = windowList[pos]: rolling is
\* the column of line 181, X the matrix of line 185, s the scorer's answer.
getWindows(pos, val, rolling, X, s) ==
  LET dropped == IsNaSum(rolling)
      index == DropNaLabels(rolling)
      vid == ViewId("Window", pos)
      dfResults == <<Column(<<"scores">>, s.scores),
                     Column(<<"Anomaly">>, s.labels),
                     Column(<<"windowIncidents">>, DropNa(rolling)),
                     Column(<<"Incidents">>, SliceFrom(NumCol(dataCol), dropped)),
                     Column(<<"Date">>, SliceFrom(timeCol, dropped))>>
      out == SetColumns(DropCol(DropCol(dfResults, <<"Date">>), <<"Incidents">>),
                        WindowColumns(val))
      built == View(vid, val, index, X, <<>>, <<>>)
  IN IF ~s.ok
       THEN Res("failed", Error("ValueError", "fit", <<val>>), <<>>, <<>>, built)
     ELSE IF Len(SliceFrom(timeCol, dropped)) # Len(X)
       THEN Res("failed", Error("ValueError", "Date", <<val>>), <<>>, <<>>, built)
     ELSE Res("getWindows", NoErr, out,
              <<getPlot(dfResults, <<"Window of ">> \o Str(val), vid)>>,
              View(vid, val, index, X, s.labels, out))

\* lines 173-178: one scorer and two empty frames for the whole loop.
GetWindowsEnter ==
  /\ pc = "getWindows"
  /\ i = 0
  /\ clf' = IsolationForest(clfCount + 1)
  /\ clfCount' = clfCount + 1
  /\ clfLog' = Append(clfLog, Event("new", IsolationForest(clfCount + 1), NoView))
  /\ rollingCol' = <<>>
  /\ rollingDF' = <<>>
  /\ i' = 1
  /\ UNCHANGED <<inputs, pc, err, plots, views, baseDF, baseDeltaDF,
                 windowDeltaDF, isoResults>>

\* lines 180-202
GetWindowsLoop ==
  /\ pc = "getWindows"
  /\ i >= 1
  /\ i <= Len(windowList)
  /\ \E rolling \in {RollingMean(dataCol, windowList[i])} :
     \E X \in {Reshape(DropNa(rolling))} :
     \E s \in {Score(clf, X, ViewId("Window", i))} :
     \E r \in {getWindows(i, windowList[i], rolling, X, s)} :
        /\ pc' = r.pc
        /\ err' = r.err
        /\ clf' = s.clf
        /\ clfLog' = clfLog \o s.log
        /\ plots' = plots \o r.plots
        /\ views' = Append(views, r.view)
        /\ IF r.pc = "failed"
             THEN UNCHANGED <<rollingCol, rollingDF>>
             ELSE /\ rollingCol' = Append(rollingCol, Column(SeriesName, rolling))
                  /\ rollingDF' = Concat(<<rollingDF, r.df>>)
  /\ i' = i + 1
  /\ UNCHANGED <<inputs, clfCount, baseDF, baseDeltaDF, windowDeltaDF,
                 isoResults>>

\* line 204
GetWindowsReturn ==
  /\ pc = "getWindows"
  /\ i > Len(windowList)
  /\ pc' = "getBaseDelta"
  /\ i' = 0
  /\ UNCHANGED <<inputs, err, scoring, frames>>

\* ------------------------------------------------ getBaseDelta, 118-149
\* deltaPD.dropna(): the rows that stay, with their index labels.
FrameDropNa(deltaPD) ==
  [j \in 1 .. Len(FrameDropNaLabels(deltaPD)) |->
     deltaPD[FrameDropNaLabels(deltaPD)[j]]]

\* deltaPD is the frame of lines 121-122, X the matrix of line 132.
getBaseDelta(deltaPD, X, s) ==
  LET deltaCol == Diff(dataCol)
      index == FrameDropNaLabels(deltaPD)
      vid == ViewId("Delta", 0)
      dfResults == <<Column(<<"deltaScores">>, s.scores),
                     Column(<<"Anomaly">>, s.labels),
                     Column(<<"Incidents">>, SliceFrom(NumCol(dataCol), 1)),
                     Column(<<"deltaIncidents">>, SliceFrom(deltaCol, 1)),
                     Column(<<"Date">>, SliceFrom(timeCol, 1))>>
      out == RenameAt(DropCol(DropCol(dfResults, <<"Date">>), <<"Incidents">>),
                      1, <<"deltaAnomaly">>)
      built == View(vid, 0, index, X, <<>>, <<>>)
  IN IF ~s.ok
       THEN Res("failed", Error("ValueError", "fit", <<>>), <<>>, <<>>, built)
     ELSE IF Len(SliceFrom(timeCol, 1)) # Len(X)
       THEN Res("failed", Error("ValueError", "Date", <<>>), <<>>, <<>>, built)
     ELSE Res("getWindowsDelta", NoErr, out,
              <<getPlot(dfResults, <<"Raw Input and Delta">>, vid)>>,
              View(vid, 0, index, X, s.labels, out))

GetBaseDelta ==
  /\ pc = "getBaseDelta"
  /\ \E deltaPD \in {DeltaFrame(Diff(dataCol), dataCol)} :
     \E X \in {FrameDropNa(deltaPD)} :
     \E s \in {Score(IsolationForest(clfCount + 1), X, ViewId("Delta", 0))} :
     \E r \in {getBaseDelta(deltaPD, X, s)} :
        /\ pc' = r.pc
        /\ err' = r.err
        /\ baseDeltaDF' = r.df
        /\ clf' = s.clf
        /\ clfLog' = Append(clfLog,
                       Event("new", IsolationForest(clfCount + 1), NoView)) \o s.log
        /\ plots' = plots \o r.plots
        /\ views' = Append(views, r.view)
  /\ clfCount' = clfCount + 1
  /\ UNCHANGED <<inputs, i, baseDF, rollingCol, rollingDF, windowDeltaDF,
                 isoResults>>

\* --------------------------------------------- getWindowsDelta, 231-262
WindowDeltaColumns(val) ==
  <<<<"windowDelta">> \o Str(val) \o <<"Scores">>,
    <<"windowDelta">> \o Str(val) \o <<"Anomaly">>,
    <<"windowDelta">> \o Str(val) \o <<"Incidents">>>>

\* Features built from the paired rolling column: its difference and level.
WindowDeltaFeaturesOfRolling(columnData) ==
  [r \in 1 .. Len(columnData) |->
     <<IF r = 1 \/ IsNa(columnData[r]) \/ IsNa(columnData[r - 1])
         THEN NaN
         ELSE Ratio(columnData[r].a - columnData[r - 1].a, columnData[r].b),
       columnData[r]>>]

\* lines 238-240: the features come from dataCol alone, columnData is unused.
WindowDeltaFeatures(columnData) == DeltaFrame(Diff(dataCol), dataCol)

\* A pairing that sees one rolling column only (same-named columns merged).
ZipFirstOnly(list, columns) == Min(1, Min(Len(list), Len(columns)))

\* zip(windowList, rollingDF.iteritems()) stops at the shorter of the two.
ZipLen(list, columns) == Min(Len(list), Len(columns))

\* One pass of the loop of line 237: deltaPD is the frame of lines 239-240,
\* X the matrix of line 244, s the scorer's answer.
getWindowsDelta(pos, val, deltaPD, X, s) ==
  LET deltaCol == Diff(dataCol)
      dropped == IsNaSum([r \in 1 .. Len(deltaPD) |-> deltaPD[r][1]])
      index == FrameDropNaLabels(deltaPD)
      vid == ViewId("WindowDelta", pos)
      dfResults == <<Column(<<"scores">>, s.scores),
                     Column(<<"Anomaly">>, s.labels),
                     Column(<<"Incidents">>, SliceFrom(NumCol(dataCol), dropped)),
                     Column(<<"deltaIncidents">>, SliceFrom(deltaCol, dropped)),
                     Column(<<"Date">>, SliceFrom(timeCol, dropped))>>
      out == SetColumns(DropCol(DropCol(dfResults, <<"Date">>), <<"Incidents">>),
                        WindowDeltaColumns(val))
      built == View(vid, val, index, X, <<>>, <<>>)
  IN IF ~s.ok
       THEN Res("failed", Error("ValueError", "fit", <<val>>), <<>>, <<>>, built)
     ELSE IF \/ Len(SliceFrom(NumCol(dataCol), dropped)) # Len(X)
             \/ Len(SliceFrom(timeCol, dropped)) # Len(X)
       THEN Res("failed", Error("ValueError", "length", <<val>>), <<>>, <<>>,
                built)
     ELSE Res("getWindowsDelta", NoErr, out,
              <<getPlot(dfResults,
                        <<"Window of ">> \o Str(val) \o <<" and Delta">>, vid)>>,
              View(vid, val, index, X, s.labels, out))

\* lines 231-233
GetWindowsDeltaEnter ==
  /\ pc = "getWindowsDelta"
  /\ i = 0
  /\ clf' = IsolationForest(clfCount + 1)
  /\ clfCount' = clfCount + 1
  /\ clfLog' = Append(clfLog, Event("new", IsolationForest(clfCount + 1), NoView))
  /\ windowDeltaDF' = <<>>
  /\ i' = 1
  /\ UNCHANGED <<inputs, pc, err, plots, views, baseDF, rollingCol, rollingDF,
                 baseDeltaDF, isoResults>>

\* lines 237-260
GetWindowsDeltaLoop ==
  /\ pc = "getWindowsDelta"
  /\ i >= 1
  /\ i <= ZipLen(windowList, rollingCol)
  /\ \E deltaPD \in {WindowDeltaFeatures(rollingCol[i].vals)} :
     \E X \in {FrameDropNa(deltaPD)} :
     \E s \in {Score(clf, X, ViewId("WindowDelta", i))} :
     \E r \in {getWindowsDelta(i, windowList[i], deltaPD, X, s)} :
        /\ pc' = r.pc
        /\ err' = r.err
        /\ clf' = s.clf
        /\ clfLog' = clfLog \o s.log
        /\ plots' = plots \o r.plots
        /\ views' = Append(views, r.view)
        /\ IF r.pc = "failed"
             THEN UNCHANGED windowDeltaDF
             ELSE windowDeltaDF' = Concat(<<windowDeltaDF, r.df>>)
  /\ i' = i + 1
  /\ UNCHANGED <<inputs, clfCount, baseDF, rollingCol, rollingDF, baseDeltaDF,
                 isoResults>>

\* line 262
GetWindowsDeltaReturn ==
  /\ pc = "getWindowsDelta"
  /\ i > ZipLen(windowList, rollingCol)
  /\ pc' = "concat"
  /\ i' = 0
  /\ UNCHANGED <<inputs, err, scoring, frames>>

\* ------------------------------------------------------ getIF, 301-314
\* line 301
ConcatResults ==
  /\ pc = "concat"
  /\ isoResults' = Concat(<<baseDF, baseDeltaDF, rollingDF, windowDeltaDF>>)
  /\ pc' = "realign"
  /\ UNCHANGED <<inputs, err, i, scoring, baseDF, rollingCol, rollingDF,
                 baseDeltaDF, windowDeltaDF>>

\* isoResults[columnName] = value: the assignment goes by name, so every
\* column of that name receives the value.
SetItem(df, name, vals) ==
  [x \in 1 .. Len(df) |-> IF df[x].name = name THEN Column(name, vals) ELSE df[x]]

\* isoResults[columnName] = isoResults[columnName].shift(dropped, axis = 0)
ShiftItem(df, name, dropped) ==
  [x \in 1 .. Len(df) |->
     IF df[x].name = name THEN Column(name, Shift(df[x].vals, dropped)) ELSE df[x]]

\* lines 309-312 for column c, read from the frame as it is when the loop
\* reaches it.
Realign(df, c) ==
  LET columnName == df[c].name
      columnData == df[c].vals
      dropped == IsNaSum(columnData)
      test == DropNa(columnData)
      assigned == SetItem(df, columnName,
                          Reindex(DropNaLabels(columnData), test, Len(columnData)))
  IN ShiftItem(assigned, columnName, dropped)

\* lines 308-312: the loop visits the columns left to right, each pass
\* working on the frame the earlier passes left.
RECURSIVE RealignFrom(_, _)
RealignFrom(df, c) ==
  IF c > Len(df) THEN df ELSE RealignFrom(Realign(df, c), c + 1)

RealignLoop ==
  /\ pc = "realign"
  /\ isoResults' = RealignFrom(isoResults, 1)
  /\ pc' = "return"
  /\ UNCHANGED <<inputs, err, i, scoring, baseDF, rollingCol, rollingDF,
                 baseDeltaDF, windowDeltaDF>>

\* line 314
Return ==
  /\ pc = "return"
  /\ pc' = "done"
  /\ UNCHANGED <<inputs, err, i, scoring, frames>>

Next ==
  \/ AssertArgs
  \/ GetBase
  \/ GetWindowsEnter
  \/ GetWindowsLoop
  \/ GetWindowsReturn
  \/ GetBaseDelta
  \/ GetWindowsDeltaEnter
  \/ GetWindowsDeltaLoop
  \/ GetWindowsDeltaReturn
  \/ ConcatResults
  \/ RealignLoop
  \/ Return

Spec == Init /\ [][Next]_vars

\* ======================================================== properties
n == Len(dataCol)
NumWindows == Len(windowList)

\* The arguments pass the type assertions and the two sequences pair up.
WellFormed == argType = "ok" /\ Len(timeCol) = n

\* The inputs the contract calls valid.
ValidInput ==
  /\ WellFormed
  /\ n >= 2
  /\ \A j \in 1 .. NumWindows : windowList[j] >= 1 /\ windowList[j] < n

Pos(kind) == {v \in 1 .. Len(views) : views[v].id.kind = kind}
Occurrences(w) == Cardinality({j \in 1 .. NumWindows : windowList[j] = w})
Warmup(v) == n - Len(views[v].matrix)

\* The views in the order their groups stand in the merged table.
TableOrder ==
  <<1, NumWindows + 2>> \o [j \in 1 .. NumWindows |-> j + 1]
    \o [j \in 1 .. NumWindows |-> NumWindows + 2 + j]

RECURSIVE WidthBefore(_)
WidthBefore(t) ==
  IF t = 1 THEN 0 ELSE WidthBefore(t - 1) + Len(views[TableOrder[t - 1]].out)

Aligned(tableCol, scoredCol, k) ==
  /\ Len(tableCol) = n
  /\ \A r \in 1 .. k : IsNa(tableCol[r])
  /\ \A r \in 1 .. (n - k) : tableCol[k + r] = scoredCol[r]

\* C1: in the table getIF returns, every column of a view with warmup k is
\* undefined at rows 0..k-1 and holds scored row i at row k+i, for every
\* series and every windowList of sizes 1 <= w < n.
C1_AlignmentRoundTrip ==
  (pc = "done" /\ ValidInput) =>
    \A t \in 1 .. Len(TableOrder) :
      \A c \in 1 .. Len(views[TableOrder[t]].out) :
        Aligned(isoResults[WidthBefore(t) + c].vals,
                views[TableOrder[t]].out[c].vals,
                Warmup(TableOrder[t]))

NamesStarting(prefix) ==
  {c \in 1 .. Len(isoResults) : Head(isoResults[c].name) = prefix}
ScoreColumns(prefix) ==
  {c \in NamesStarting(prefix) :
     isoResults[c].name[Len(isoResults[c].name)] = "Scores"}

\* C2: the returned table has n rows and holds the Raw and the Delta group
\* and one Window and one WindowDelta group per entry of windowList, so
\* 2 + 2k views; with no window there is no Window/WindowDelta column.
C2_AllViewsPresent ==
  pc = "done" =>
    /\ \A c \in 1 .. Len(isoResults) : Len(isoResults[c].vals) = n
    /\ Cardinality(NamesStarting("baseScores")) = 1
    /\ Cardinality(NamesStarting("deltaScores")) = 1
    /\ Cardinality(ScoreColumns("window")) = NumWindows
    /\ Cardinality(ScoreColumns("windowDelta")) = NumWindows
    /\ \A w \in WindowSizes :
         /\ Cardinality({c \in ScoreColumns("window") :
               isoResults[c].name = <<"window">> \o Str(w) \o <<"Scores">>})
              = Occurrences(w)
         /\ Cardinality({c \in ScoreColumns("windowDelta") :
               isoResults[c].name = <<"windowDelta">> \o Str(w) \o <<"Scores">>})
              = Occurrences(w)
    /\ (NumWindows = 0 =>
          NamesStarting("window") \cup NamesStarting("windowDelta") = {})

C2_Witness ==
  /\ pc = "done"
  /\ NumWindows = 2
  /\ windowList[1] # windowList[2]

KeepsRowsFrom(v, k) ==
  /\ views[v].index = SliceFrom(Range(n), k)
  /\ Len(views[v].matrix) = Len(views[v].index)

\* C3: Raw drops no leading row, Delta and every WindowDelta(w) drop one
\* whatever w is, and Window(w) drops w - 1, for 1 <= w < n.
C3_WarmupByKind ==
  \A v \in 1 .. Len(views) :
    /\ views[v].id.kind = "Raw" => KeepsRowsFrom(v, 0)
    /\ views[v].id.kind \in {"Delta", "WindowDelta"} => KeepsRowsFrom(v, 1)
    /\ (views[v].id.kind = "Window" /\ views[v].w >= 1 /\ views[v].w < n)
         => KeepsRowsFrom(v, views[v].w - 1)

C3_Witness ==
  /\ pc = "done"
  /\ n = 3
  /\ \E v \in Pos("Window") : views[v].w = 2 /\ views[v].index = <<2, 3>>
  /\ \E v \in Pos("WindowDelta") : views[v].w = 2 /\ views[v].index = <<2, 3>>

Short == n < 2 \/ \E j \in 1 .. NumWindows : windowList[j] >= n
TooLong(w) == w >= n
FitAttempted(id) ==
  \E e \in 1 .. Len(clfLog) :
    clfLog[e].op \in {"fit", "fit_rejected"} /\ clfLog[e].view = id

\* C4: a window size >= len(series), or a series shorter than 2, fails the
\* run with an insufficient-length error that names the offending window,
\* before that window's view reaches the scorer, and no table is returned.
C4_InsufficientLength ==
  (WellFormed /\ time # "False" /\ Short
     /\ \A j \in 1 .. NumWindows : windowList[j] >= 1) =>
    /\ pc # "done"
    /\ pc = "failed" =>
         /\ err.kind = "InsufficientLengthError"
         /\ ~FitAttempted(views[Len(views)].id)
         /\ (n >= 2 => Len(err.window) = 1 /\ TooLong(err.window[1]))

Malformed ==
  \/ Len(timeCol) # n
  \/ \E j \in 1 .. NumWindows : windowList[j] < 1

\* C5: timestamps of another length than the series, or a window that is
\* not a positive integer, are rejected before any view is built, any
\* scorer is fit or any plot is emitted.
C5_ValidationFirst ==
  (Malformed /\ n >= 2) =>
    /\ pc # "done"
    /\ views = <<>>
    /\ clfLog = <<>>
    /\ plots = <<>>

DeltaView == views[CHOOSE v \in Pos("Delta") : TRUE]

GroupNames(prefix, w) ==
  <<<<prefix>> \o Str(w) \o <<"Scores">>,
    <<prefix>> \o Str(w) \o <<"Anomaly">>,
    <<prefix>> \o Str(w) \o <<"Incidents">>>>

RECURSIVE GroupsOf(_, _)
GroupsOf(prefix, list) ==
  IF list = <<>> THEN <<>>
  ELSE GroupNames(prefix, Head(list)) \o GroupsOf(prefix, Tail(list))

\* C7: the groups stand in the order Raw, Delta, Window(w1..wk),
\* WindowDelta(w1..wk), the i-th groups named from windowList[i], repeated
\* entries keep a group each, and groups of one kind with different window
\* sizes share no column name.
C7_OrderAndNames ==
  pc = "done" =>
    /\ ColNames(isoResults) =
         <<<<"baseScores">>, <<"Anomaly">>, <<"Incidents">>, <<"Date">>,
           <<"deltaScores">>, <<"deltaAnomaly">>, <<"deltaIncidents">>>>
           \o GroupsOf("window", windowList)
           \o GroupsOf("windowDelta", windowList)
    /\ \A c, d \in 1 .. Len(isoResults) :
         (c # d /\ isoResults[c].name = isoResults[d].name) =>
           \E j, l \in 1 .. NumWindows : j # l /\ windowList[j] = windowList[l]

C7_Witness ==
  /\ pc = "done"
  /\ NumWindows = 2
  /\ windowList[1] > windowList[2]

DateColumn == Col(isoResults, <<"Date">>)

\* C8: for every value of the time flag the run completes and row i of the
\* Date column is source timestamp i, with its time of day when the flag
\* is True and as a calendar date otherwise, unshifted.
C8_TimeFlag ==
  ValidInput =>
    /\ pc # "failed"
    /\ pc = "done" =>
         /\ HasCol(isoResults, <<"Date">>)
         /\ Len(DateColumn) = n
         /\ \A r \in 1 .. n :
              DateColumn[r] = IF time = "True" THEN timeCol[r]
                              ELSE DtDate(timeCol[r])

ViewOf(id) == views[CHOOSE v \in 1 .. Len(views) : views[v].id = id]

FitEvents == {e \in 1 .. Len(clfLog) : clfLog[e].op = "fit"}
ReadEvents ==
  {e \in 1 .. Len(clfLog) : clfLog[e].op \in {"decision_function", "predict"}}

\* C9 as stated: every view has a scorer of its own, so no scorer instance
\* is ever fit to the feature matrices of two different views.
C9_FreshScorerPerView ==
  \A e, f \in FitEvents :
    clfLog[e].inst = clfLog[f].inst =>
      ViewOf(clfLog[e].view).matrix = ViewOf(clfLog[f].view).matrix

\* C9 as amended: Raw and Delta have a scorer of their own, the Window
\* views share one instance and the WindowDelta views share another, re-fit
\* for each view; scores and labels of a view are read while the most
\* recent fit of the instance is that view's matrix.
C9_RefitPerView ==
  /\ \A e, f \in FitEvents :
       clfLog[e].inst = clfLog[f].inst <=>
         clfLog[e].view.kind = clfLog[f].view.kind
  /\ \A e \in ReadEvents : clfLog[e].fitted = clfLog[e].view
  /\ \A v \in 1 .. Len(views) :
       views[v].labels # <<>> =>
         /\ Cardinality({e \in ReadEvents : clfLog[e].view = views[v].id}) = 2
         /\ views[v].labels =
              Predict([id |-> 0, model |-> views[v].matrix, view |-> views[v].id],
                      views[v].matrix)

C9_Witness ==
  /\ pc = "done"
  /\ NumWindows = 2
  /\ \E e, f \in FitEvents :
       /\ clfLog[e].inst = clfLog[f].inst
       /\ clfLog[e].view # clfLog[f].view
       /\ views[3].labels # views[2].labels

SameInstant(c, d) == c.a = d.a /\ c.b = d.b

\* C10: the anomaly set getPlot receives for a view with warmup k is the
\* set of (timestamps[k+i], series[k+i]) over the scored rows i labelled
\* -1, and nothing else.
C10_PlottedAnomalies ==
  \A p \in 1 .. Len(plots) :
    LET v == ViewOf(plots[p].view)
        k == n - Len(v.labels)
        flagged == {r \in 1 .. Len(v.labels) : v.labels[r] = Num(0 - 1)}
    IN /\ \A r \in flagged :
            \E j \in 1 .. Len(plots[p].a) :
              /\ SameInstant(plots[p].a[j][1], timeCol[k + r])
              /\ plots[p].a[j][2] = Num(dataCol[k + r])
       /\ \A j \in 1 .. Len(plots[p].a) :
            \E r \in flagged :
              /\ SameInstant(plots[p].a[j][1], timeCol[k + r])
              /\ plots[p].a[j][2] = Num(dataCol[k + r])
====
